---- MODULE Spec2Model ----
(***************************************************************************)
(* Model of the "generate" tool of gc (src/src/index.ts): the pipeline     *)
(* git check -> staged summary -> full diff -> model config -> provider    *)
(* -> generateText -> parseCommitCandidates -> select -> confirm -> commit *)
(* together with its pure helpers escapeQuotes and parseCommitCandidates.  *)
(* Strings are sequences of one-character strings.                         *)
(***************************************************************************)
EXTENDS Integers, Sequences, FiniteSets, TLC

VARIABLES
    pc,           \* position of execute: the await it is suspended at
    request,      \* the validated input {format, count, language}
    gitCheck,     \* result of execCommand("git rev-parse --is-inside-work-tree")
    stagedCheck,  \* result of execCommand("git diff --cached --stat")
    diffResult,   \* result of execCommand("git diff --cached")
    config,       \* provider name of the ModelConfig, or NoConfig
    modelRequests,\* the requests sent to a model provider, in order
    text,         \* the text generateText returned
    candidates,   \* parseCommitCandidates(text)
    choice,       \* index of the option the operator picked in select
    selected,     \* the value select returned
    shouldCommit, \* the value confirm returned
    commitArg,    \* the text between the double quotes of the commit command
    commitResult, \* result of execCommand(`git commit -m "..."`)
    result,       \* the record execute returned
    log           \* the collaborator calls made so far, in order

vars == <<pc, request, gitCheck, stagedCheck, diffResult, config, modelRequests,
          text, candidates, choice, selected, shouldCommit, commitArg, commitResult,
          result, log>>

(***************************************************************************)
(* Characters                                                              *)
(***************************************************************************)
NL == "\n"
CR == "\r"
SP == " "
DQ == "\""
\* the backtick character (the lexer admits none inside a string literal)
BT == "backtick"
BS == "\\"
DOLLAR == "$"
DOT == "."

\* \d of the regular expression: ASCII digits
Digits == {"0", "1", "2", "3", "4", "5", "6", "7", "8", "9"}

\* the line terminators, which "." of a regular expression does not match
LineTerminators == {NL, CR}

\* \s of the regular expression and the characters String.prototype.trim removes
WhiteSpace == {SP, "\t"} \cup LineTerminators

(***************************************************************************)
(* Bounds                                                                  *)
(***************************************************************************)
MaxTextLen == 5
MaxMsgLen == 4

\* every sequence over S of length at most n
SeqsUpTo(S, n) == UNION {[1..k -> S] : k \in 0..n}

(***************************************************************************)
(* String helpers                                                          *)
(***************************************************************************)
Range(s) == {s[i] : i \in DOMAIN s}

Max(S) == CHOOSE x \in S : \A y \in S : y <= x

\* s.slice(i - 1): the suffix of s starting at index i (1-based)
Drop(s, i) == SubSeq(s, i, Len(s))

\* number of leading characters of s that are in S
RECURSIVE LeadingRun(_, _)
LeadingRun(s, S) ==
    IF s # <<>> /\ Head(s) \in S THEN 1 + LeadingRun(Tail(s), S) ELSE 0

\* number of trailing characters of s that are in S
RECURSIVE TrailingRun(_, _)
TrailingRun(s, S) ==
    IF s # <<>> /\ s[Len(s)] \in S
    THEN 1 + TrailingRun(SubSeq(s, 1, Len(s) - 1), S)
    ELSE 0

\* String.prototype.trim
Trim(s) ==
    LET a == LeadingRun(s, WhiteSpace)
    IN  IF a = Len(s) THEN <<>>
        ELSE SubSeq(s, a + 1, Len(s) - TrailingRun(s, WhiteSpace))

\* text.split(sep) for a one-character separator: the pieces between the
\* separators, empty pieces included
RECURSIVE Split(_, _)
Split(s, sep) ==
    LET n == LeadingRun(s, {c \in Range(s) : c # sep})
    IN  IF n = Len(s) THEN <<s>>
        ELSE <<SubSeq(s, 1, n)>> \o Split(Drop(s, n + 2), sep)

\* str.replace(/c/g, rep): every occurrence of character c replaced by rep
RECURSIVE ReplaceAll(_, _, _)
ReplaceAll(s, c, rep) ==
    IF s = <<>> THEN <<>>
    ELSE (IF Head(s) = c THEN rep ELSE <<Head(s)>>) \o ReplaceAll(Tail(s), c, rep)

(***************************************************************************)
(* escapeQuotes (index.ts 44-46)                                           *)
(***************************************************************************)
escapeQuotes_OnlyQuotes(str) == ReplaceAll(str, DQ, <<BS, DQ>>)

escapeQuotes_AlsoBackslash(str) ==
    ReplaceAll(ReplaceAll(ReplaceAll(str, BS, <<BS, BS>>), DQ, <<BS, DQ>>),
               BT, <<BS, BT>>)

\* str.replace(/"/g, '\\"').replace(/`/g, "\\`")
escapeQuotes(str) ==
    ReplaceAll(ReplaceAll(str, DQ, <<BS, DQ>>), BT, <<BS, BT>>)

(***************************************************************************)
(* The command line `git commit -m "${escapeQuotes(selected)}"` is run by  *)
(* exec through /bin/sh.  ShellDoubleQuoted(body) is what the shell makes  *)
(* of the word that opens with the double quote of the template and holds  *)
(* body followed by the template's closing double quote:                   *)
(*   status "ok"          the word ends at the template's closing quote    *)
(*                        and value is the argument git receives;          *)
(*   status "terminated"  an unescaped double quote of body ends the word  *)
(*                        early;                                           *)
(*   status "substituted" an unescaped backtick or a $-expansion starts a  *)
(*                        substitution;                                    *)
(*   status "unterminated" the closing quote is escaped by a backslash.    *)
(* Inside double quotes a backslash is special only before $ ` " \ and     *)
(* newline; $ starts an expansion before a name character or $.            *)
(***************************************************************************)
ShellEscapable == {DOLLAR, BT, DQ, BS}

ExpansionStart == {"a", "b", "c", DOLLAR, "_"}

RECURSIVE ShellScan(_, _, _)
ShellScan(w, i, acc) ==
    IF i > Len(w) THEN [status |-> "unterminated", value |-> acc]
    ELSE LET c == w[i] IN
         CASE c = DQ ->
                [status |-> IF i = Len(w) THEN "ok" ELSE "terminated", value |-> acc]
           [] c = BT -> [status |-> "substituted", value |-> acc]
           [] c = DOLLAR ->
                IF i < Len(w) /\ w[i + 1] \in ExpansionStart
                THEN [status |-> "substituted", value |-> acc]
                ELSE ShellScan(w, i + 1, Append(acc, c))
           [] c = BS ->
                IF i < Len(w) /\ w[i + 1] \in ShellEscapable
                THEN ShellScan(w, i + 2, Append(acc, w[i + 1]))
                ELSE IF i < Len(w) /\ w[i + 1] = NL
                THEN ShellScan(w, i + 2, acc)
                ELSE ShellScan(w, i + 1, Append(acc, c))
           [] OTHER -> ShellScan(w, i + 1, Append(acc, c))

ShellDoubleQuoted(body) == ShellScan(Append(body, DQ), 1, <<>>)

(***************************************************************************)
(* parseCommitCandidates (index.ts 142-154)                                *)
(***************************************************************************)
\* line.match(/^\d+\.\s*(.+)$/): <<>> when the line does not match, else
\* <<match[1]>>.  \d+ takes the leading digits, which must be followed by
\* a period; \s* is greedy and gives characters back until (.+)$ can match
\* the whole rest of the line, and "." matches no line terminator.
RegexMatch(line) ==
    LET d    == LeadingRun(line, Digits)
        rest == Drop(line, d + 2)
        w    == LeadingRun(rest, WhiteSpace)
        ks   == {k \in 0..w :
                    /\ k < Len(rest)
                    /\ \A j \in (k + 1)..Len(rest) : rest[j] \notin LineTerminators}
    IN  IF d >= 1 /\ Len(line) >= d + 1 /\ line[d + 1] = DOT /\ ks # {}
        THEN <<Drop(rest, Max(ks) + 1)>>
        ELSE <<>>

\* the loop body of lines 146-151 over lines[i..]
RECURSIVE CollectCandidates(_, _)
CollectCandidates(lines, acc) ==
    IF lines = <<>> THEN acc
    ELSE LET match == RegexMatch(Head(lines)) IN
         CollectCandidates(Tail(lines),
             IF match # <<>> /\ match[1] # <<>>
             THEN Append(acc, Trim(match[1]))
             ELSE acc)

parseCommitCandidates(t) == CollectCandidates(Split(t, NL), <<>>)

(***************************************************************************)
(* Inputs of one run                                                       *)
(***************************************************************************)
\* A JavaScript number is held as a whole number of 1/CountDenominator, so
\* that numbers that are no integers exist; Num(n) is the integer n.
CountDenominator == 2

Num(n) == n * CountDenominator

IsInteger(x) == x % CountDenominator = 0

\* .min(1), .max(10), .default(5) of count (lines 21-23)
MinCount == 1
MaxCount == 10
DefaultCount == 5

FormatEnum == {"conventional", "gitmoji"}

LanguageEnum == {"en", "zh"}

\* generateCommitSchema.parse(raw) (lines 14-29): a key that is not given
\* takes its default; ok is whether every key passes its validation
generateCommitSchema(raw) ==
    LET format   == IF "format" \in raw.given THEN raw.format ELSE "conventional"
        count    == IF "count" \in raw.given THEN raw.count ELSE Num(DefaultCount)
        language == IF "language" \in raw.given THEN raw.language ELSE "en"
    IN  [ok |-> /\ format \in FormatEnum
                /\ Num(MinCount) <= count /\ count <= Num(MaxCount)
                /\ language \in LanguageEnum,
         value |-> [format |-> format, count |-> count, language |-> language]]

\* the inputs handed to the tool: given is the set of the keys the input has;
\* a key that is not given holds a placeholder
RawInputs ==
    {r \in [given : SUBSET {"format", "count", "language"},
            format : FormatEnum \cup {"", "plain"},
            count : 0..Num(MaxCount + 1),
            language : LanguageEnum \cup {"", "fr"}] :
        /\ ("format" \in r.given) = (r.format # "")
        /\ ("language" \in r.given) = (r.language # "")
        /\ "count" \notin r.given => r.count = 0}

\* the requests the input schema admits that the model runs with
Requests ==
    [format : FormatEnum, count : {Num(1), Num(5), Num(10)}, language : LanguageEnum]

\* stdout of `git diff --cached --stat`
StatOutputs == { <<>>, <<SP, NL>>, <<"a">>, <<SP, "a", NL>> }

\* the complete output of `git diff --cached` in the repository of the run
StagedDiff == <<"+", "a", NL>>

\* stdout captured from `git diff --cached`: all of it when the command
\* succeeds, any prefix of it (error.stdout || "") when it fails
DiffOutcomes ==
    {[success |-> TRUE, output |-> StagedDiff]}
    \cup {[success |-> FALSE, output |-> SubSeq(StagedDiff, 1, k)] : k \in 0..Len(StagedDiff)}

SupportedProviders == {"openai", "anthropic", "google"}

\* config.provider of the configurations getConfigAsync can return
ConfiguredProviders == SupportedProviders \cup {"azure"}

NoConfig == "none"

\* messages of the errors the collaborators can throw
ThrownMessages == {"fetch failed", "Parse error"}

\* error.message of a failed `git commit`
CommitErrors ==
    {"Command failed: git commit", "Command failed: git commit (hook declined)"}

\* the value of the Cancel option (line 248)
CancelValue == <<"_", "_", "c", "a", "n", "c", "e", "l", "_", "_">>

\* texts generateText can return
ModelTexts ==
    { <<>>,
      <<"1", ".", SP, "a", NL, "2", ".", SP, "b", NL>>,
      <<"x", ":", NL, "1", ".", SP, "a", NL, "x", NL>>,
      <<"3", ".", SP, "b", NL, "1", ".", "a", DQ, SP, NL, "2", ".", SP, "b">>,
      <<"1", ".", SP>> \o CancelValue,
      <<"1", ".", SP, "a", DQ, "b", BT, "c">>,
      <<"1", ".", SP, DOLLAR, "a", BS>>,
      <<"1", ".", SP, SP>>,
      <<"1", ".", SP, "a", CR, NL, "2", ".", SP, "b", CR, NL>> }

(***************************************************************************)
(* Result records {success, message?, error?, cancelled?, suggestedMessage?}*)
(* present is the set of the keys the returned object has; a key that is   *)
(* not present holds a default of its type.                                *)
(***************************************************************************)
NoResult ==
    [present |-> {}, success |-> FALSE, message |-> <<>>, error |-> "",
     cancelled |-> FALSE, suggestedMessage |-> <<>>]

\* { success: false, error: msg }
Failure(msg) ==
    [NoResult EXCEPT !.present = {"success", "error"}, !.error = msg]

\* { success: false, cancelled: true }
CancelledResult ==
    [NoResult EXCEPT !.present = {"success", "cancelled"}, !.cancelled = TRUE]

\* { success: true, message: selected }
CommittedResult(msg) ==
    [NoResult EXCEPT !.present = {"success", "message"}, !.success = TRUE,
                     !.message = msg]

DeclinedResult_NoSuggestion(msg) == CancelledResult

\* { success: false, cancelled: true, suggestedMessage: selected }
DeclinedResult(msg) ==
    [NoResult EXCEPT !.present = {"success", "cancelled", "suggestedMessage"},
                     !.cancelled = TRUE, !.suggestedMessage = msg]

(***************************************************************************)
(* createProviderFromConfig (index.ts 156-179)                             *)
(***************************************************************************)
DefaultModel(provider) ==
    CASE provider = "openai" -> "gpt-4o-mini"
      [] provider = "anthropic" -> "claude-3-5-haiku-20241022"
      [] provider = "google" -> "gemini-2.0-flash-exp"

createProviderFromConfig_Defaulting(provider) ==
    IF provider \in SupportedProviders
    THEN [ok |-> TRUE, provider |-> provider, model |-> DefaultModel(provider), message |-> ""]
    ELSE [ok |-> TRUE, provider |-> "openai", model |-> DefaultModel("openai"), message |-> ""]

\* ok: a model handle of that provider; otherwise the Error thrown
createProviderFromConfig(provider) ==
    IF provider \in SupportedProviders
    THEN [ok |-> TRUE, provider |-> provider, model |-> DefaultModel(provider), message |-> ""]
    ELSE [ok |-> FALSE, provider |-> provider, model |-> "",
          message |-> "Unsupported provider: " \o provider]

\* the arguments of buildPrompt (line 228) that vary between runs
buildPrompt(diff, format, count, language) ==
    [diff |-> diff, format |-> format, count |-> count, language |-> language]

\* the options handed to select (lines 243-249): the values in order
SelectOptions(cands) == Append(cands, CancelValue)

(***************************************************************************)
(* execute (index.ts 186-281), one action per await                        *)
(***************************************************************************)
Init ==
    /\ pc = "gitCheck"
    /\ request \in Requests
    /\ gitCheck = [success |-> FALSE]
    /\ stagedCheck = [success |-> FALSE, output |-> <<>>]
    /\ diffResult = [success |-> FALSE, output |-> <<>>]
    /\ config = NoConfig
    /\ modelRequests = <<>>
    /\ text = <<>>
    /\ candidates = <<>>
    /\ selected = <<>>
    /\ choice = 0
    /\ shouldCommit = FALSE
    /\ commitArg = <<>>
    /\ commitResult = [success |-> FALSE, error |-> ""]
    /\ result = NoResult
    /\ log = <<>>

\* return r
Return(r) ==
    /\ pc' = "done"
    /\ result' = r

\* Step 1 (lines 188-195)
CheckRepository ==
    /\ pc = "gitCheck"
    /\ \E ok \in BOOLEAN :
         /\ gitCheck' = [success |-> ok]
         /\ IF ~ok THEN Return(Failure("Not a git repository"))
                   ELSE pc' = "stagedCheck" /\ UNCHANGED result
    /\ log' = Append(log, "exec:rev-parse")
    /\ UNCHANGED <<request, stagedCheck, diffResult, config, modelRequests, text,
                   candidates, selected, choice, shouldCommit, commitArg, commitResult>>

\* the test of line 199
NothingStaged_IgnoringOutput(check) == ~check.success

NothingStaged(check) == Trim(check.output) = <<>>

\* Step 2 (lines 198-208)
GetStagedChanges ==
    /\ pc = "stagedCheck"
    /\ \E ok \in BOOLEAN, out \in StatOutputs :
         /\ stagedCheck' = [success |-> ok, output |-> out]
         /\ IF NothingStaged(stagedCheck')
            THEN Return(Failure("No staged changes"))
            ELSE pc' = "diff" /\ UNCHANGED result
    /\ log' = Append(log, "exec:diff-stat")
    /\ UNCHANGED <<request, gitCheck, diffResult, config, modelRequests, text,
                   candidates, selected, choice, shouldCommit, commitArg, commitResult>>

\* Step 3 (lines 211-212)
GetFullDiff ==
    /\ pc = "diff"
    /\ \E r \in DiffOutcomes : diffResult' = r
    /\ pc' = "getConfig"
    /\ log' = Append(log, "exec:diff")
    /\ UNCHANGED <<request, gitCheck, stagedCheck, config, modelRequests, text,
                   candidates, selected, choice, shouldCommit, commitArg, commitResult, result>>

\* Step 4 (lines 215-222).  The accessor resolves with a configuration,
\* resolves with nothing, or rejects; line 215 is outside the try block, so a
\* rejection leaves execute as a rejected promise.
GetModelConfig ==
    /\ pc = "getConfig"
    /\ \E outcome \in ConfiguredProviders \cup {NoConfig, "rejects"} :
         CASE outcome = "rejects" ->
                /\ pc' = "threw"
                /\ log' = Append(log, "getConfigAsync")
                /\ UNCHANGED <<config, result>>
           [] outcome = NoConfig ->
                /\ Return(Failure("No model configured"))
                /\ log' = Append(log, "getConfigAsync")
                /\ UNCHANGED config
           [] OTHER ->
                /\ config' = outcome
                /\ pc' = "generate"
                /\ log' = log \o <<"getConfigAsync", "spinner">>
                /\ UNCHANGED result
    /\ UNCHANGED <<request, gitCheck, stagedCheck, diffResult, modelRequests, text,
                   candidates, selected, choice, shouldCommit, commitArg, commitResult>>

\* the catch block (lines 275-280), entered after the calls `called`
Catch(called, message) ==
    /\ log' = log \o called \o <<"spin.fail">>
    /\ Return(Failure(message))

\* Step 5 (lines 225-238)
Generate ==
    /\ pc = "generate"
    /\ LET provider == createProviderFromConfig(config) IN
       IF ~provider.ok
       THEN /\ Catch(<<"createProviderFromConfig">>, provider.message)
            /\ UNCHANGED <<modelRequests, text, candidates>>
       ELSE /\ modelRequests' = Append(modelRequests,
                  [provider |-> provider.provider, model |-> provider.model,
                   prompt |-> buildPrompt(diffResult.output, request.format,
                                          request.count, request.language)])
            /\ \/ \E message \in ThrownMessages :
                    /\ Catch(<<"createProviderFromConfig", "generateText">>, message)
                    /\ UNCHANGED <<text, candidates>>
               \/ \E t \in ModelTexts :
                    /\ text' = t
                    /\ candidates' = parseCommitCandidates(t)
                    /\ log' = log \o <<"createProviderFromConfig", "generateText",
                                       "spin.succeed">>
                    /\ IF Len(candidates') = 0
                       THEN Return(Failure("Parse error"))
                       ELSE pc' = "select" /\ UNCHANGED result
    /\ UNCHANGED <<request, gitCheck, stagedCheck, diffResult, config,
                   selected, choice, shouldCommit, commitArg, commitResult>>

IsCancel_Never(value) == FALSE

\* the test of line 252
IsCancel(value) == value = CancelValue

\* Step 6 (lines 241-255)
Select ==
    /\ pc = "select"
    /\ \/ \E message \in ThrownMessages :
            /\ Catch(<<"select">>, message)
            /\ UNCHANGED <<choice, selected>>
       \/ \E i \in 1..Len(SelectOptions(candidates)) :
            /\ choice' = i
            /\ selected' = SelectOptions(candidates)[i]
            /\ log' = Append(log, "select")
            /\ IF IsCancel(selected')
               THEN Return(CancelledResult)
               ELSE pc' = "confirm" /\ UNCHANGED result
    /\ UNCHANGED <<request, gitCheck, stagedCheck, diffResult, config, modelRequests,
                   text, candidates, shouldCommit, commitArg, commitResult>>

ShouldProceed_Always(answer) == TRUE

\* the test of line 260
ShouldProceed(answer) == answer

\* Step 7, the question (lines 258-260, 272-274)
Confirm ==
    /\ pc = "confirm"
    /\ \/ \E message \in ThrownMessages :
            /\ Catch(<<"confirm">>, message)
            /\ UNCHANGED shouldCommit
       \/ \E answer \in BOOLEAN :
            /\ shouldCommit' = answer
            /\ log' = Append(log, "confirm")
            /\ IF ShouldProceed(answer)
               THEN pc' = "commit" /\ UNCHANGED result
               ELSE Return(DeclinedResult(selected))
    /\ UNCHANGED <<request, gitCheck, stagedCheck, diffResult, config, modelRequests,
                   text, candidates, choice, selected, commitArg, commitResult>>

CommitMessageArg_Raw(message) == message

\* the text put between the double quotes of the commit command (line 262)
CommitMessageArg(message) == escapeQuotes(message)

\* Step 7, the commit (lines 261-269)
Commit ==
    /\ pc = "commit"
    /\ commitArg' = CommitMessageArg(selected)
    /\ log' = Append(log, "exec:commit")
    /\ \E r \in {[success |-> TRUE, error |-> ""]}
                \cup {[success |-> FALSE, error |-> m] : m \in CommitErrors} :
         /\ commitResult' = r
         /\ IF r.success
            THEN Return(CommittedResult(selected))
            ELSE Return(Failure(r.error))
    /\ UNCHANGED <<request, gitCheck, stagedCheck, diffResult, config, modelRequests,
                   text, candidates, choice, selected, shouldCommit>>

Next ==
    \/ CheckRepository
    \/ GetStagedChanges
    \/ GetFullDiff
    \/ GetModelConfig
    \/ Generate
    \/ Select
    \/ Confirm
    \/ Commit

Spec == Init /\ [][Next]_vars

\* execute has returned a result record
Returned == pc = "done"

\* number of times a collaborator was called
Calls(name) == Cardinality({i \in DOMAIN log : log[i] = name})

\* position of the first call of a collaborator in the log, 0 when never called
FirstCall(name) ==
    IF Calls(name) = 0 THEN 0
    ELSE CHOOSE i \in DOMAIN log :
            log[i] = name /\ \A j \in 1..(i - 1) : log[j] # name

\* the operator picked option i of the selection prompt
Picked(i) == Calls("select") = 1 /\ choice = i

\* the operator picked one of the candidates, not the Cancel option
PickedCandidate == Calls("select") = 1 /\ choice \in 1..Len(candidates)

\* the operator picked the Cancel option, the last one of the prompt
PickedCancel == Picked(Len(candidates) + 1)

\* confirm returned the answer b (a confirm that throws enters the catch
\* block, which calls spin.fail)
Answered(b) ==
    Calls("confirm") = 1 /\ Calls("spin.fail") = 0 /\ shouldCommit = b

(***************************************************************************)
(* parseCommitCandidates on its own: every text over ParseAlphabet of       *)
(* length at most MaxTextLen, and the texts of ModelTexts                   *)
(***************************************************************************)
ParseAlphabet == {"1", DOT, SP, "a", NL, CR}

ParseTexts == SeqsUpTo(ParseAlphabet, MaxTextLen) \cup ModelTexts

\* the state of a run in which nothing has been called
Idle ==
    /\ request = [format |-> "conventional", count |-> Num(DefaultCount), language |-> "en"]
    /\ gitCheck = [success |-> FALSE]
    /\ stagedCheck = [success |-> FALSE, output |-> <<>>]
    /\ diffResult = [success |-> FALSE, output |-> <<>>]
    /\ config = NoConfig
    /\ modelRequests = <<>>
    /\ choice = 0
    /\ shouldCommit = FALSE
    /\ commitArg = <<>>
    /\ commitResult = [success |-> FALSE, error |-> ""]
    /\ result = NoResult
    /\ log = <<>>

InitParse ==
    /\ Idle
    /\ pc = "parse"
    /\ text \in ParseTexts
    /\ candidates = <<>>
    /\ selected = <<>>

ParseText ==
    /\ pc = "parse"
    /\ candidates' = parseCommitCandidates(text)
    /\ pc' = "parsed"
    /\ UNCHANGED <<request, gitCheck, stagedCheck, diffResult, config, modelRequests,
                   text, choice, selected, shouldCommit, commitArg, commitResult,
                   result, log>>

SpecParse == InitParse /\ [][ParseText]_vars

(***************************************************************************)
(* escapeQuotes on its own: every message over MessageAlphabet of length    *)
(* at most MaxMsgLen is put into the commit command                         *)
(***************************************************************************)
MessageAlphabet == {"a", DQ, BT, BS, DOLLAR, NL}

Messages == SeqsUpTo(MessageAlphabet, MaxMsgLen)

InitEscape ==
    /\ Idle
    /\ pc = "escape"
    /\ text = <<>>
    /\ candidates = <<>>
    /\ selected \in Messages

EscapeMessage ==
    /\ pc = "escape"
    /\ commitArg' = CommitMessageArg(selected)
    /\ pc' = "escaped"
    /\ UNCHANGED <<request, gitCheck, stagedCheck, diffResult, config, modelRequests,
                   text, candidates, choice, selected, shouldCommit, commitResult,
                   result, log>>

SpecEscape == InitEscape /\ [][EscapeMessage]_vars

(***************************************************************************)
(* The input schema in front of execute: the tool is handed a raw input,    *)
(* generateCommitSchema validates it, and execute starts with the parsed    *)
(* value or the input is rejected                                           *)
(***************************************************************************)
InitSchema ==
    /\ pc = "validate"
    /\ request \in RawInputs
    /\ gitCheck = [success |-> FALSE]
    /\ stagedCheck = [success |-> FALSE, output |-> <<>>]
    /\ diffResult = [success |-> FALSE, output |-> <<>>]
    /\ config = NoConfig
    /\ modelRequests = <<>>
    /\ text = <<>>
    /\ candidates = <<>>
    /\ selected = <<>>
    /\ choice = 0
    /\ shouldCommit = FALSE
    /\ commitArg = <<>>
    /\ commitResult = [success |-> FALSE, error |-> ""]
    /\ result = NoResult
    /\ log = <<>>

\* inputSchema: generateCommitSchema (line 185), applied before execute
ValidateInput ==
    /\ pc = "validate"
    /\ LET parsed == generateCommitSchema(request) IN
       IF parsed.ok
       THEN request' = parsed.value /\ pc' = "gitCheck"
       ELSE pc' = "rejected" /\ UNCHANGED request
    /\ UNCHANGED <<gitCheck, stagedCheck, diffResult, config, modelRequests, text,
                   candidates, choice, selected, shouldCommit, commitArg,
                   commitResult, result, log>>

SpecSchema == InitSchema /\ [][ValidateInput \/ CheckRepository]_vars

\* execute runs, or has run, with the request
PipelineRuns == pc \notin {"validate", "rejected"}

(***************************************************************************)
(* Properties                                                              *)
(***************************************************************************)

\* C1: a request reaches a model provider only after the repository check
\* succeeded, the staged summary was non-empty after trimming and the
\* configuration accessor returned a configuration, each of them called
\* before it; and a run whose staged summary is empty (after trimming) has
\* returned {success: false, error: "No staged changes"} without a model
\* call, a select, a confirm or a commit.
C1_ModelCallOnlyAfterPreconditions ==
    /\ (modelRequests # <<>> \/ Calls("generateText") > 0) =>
          /\ gitCheck.success
          /\ Trim(stagedCheck.output) # <<>>
          /\ config # NoConfig
          /\ 0 < FirstCall("exec:rev-parse")
          /\ FirstCall("exec:rev-parse") < FirstCall("exec:diff-stat")
          /\ FirstCall("exec:diff-stat") < FirstCall("getConfigAsync")
          /\ FirstCall("getConfigAsync") < FirstCall("generateText")
    /\ (Calls("exec:diff-stat") = 1 /\ Trim(stagedCheck.output) = <<>>) =>
          /\ Returned
          /\ result = Failure("No staged changes")
          /\ modelRequests = <<>>
          /\ \A name \in {"generateText", "select", "confirm", "exec:commit"} :
                Calls(name) = 0

\* C1 witness: the staged-summary command succeeded with empty output and
\* the run has returned.
C1_Witness ==
    /\ Returned
    /\ Calls("exec:diff-stat") = 1
    /\ stagedCheck = [success |-> TRUE, output |-> <<>>]

\* C2: when the operator picked a candidate, answered the confirmation with
\* yes and the commit command succeeded, the run has returned
\* {success: true, message: <the picked candidate>} and the commit command
\* carried escapeQuotes of that candidate between its double quotes.
C2_CommittedResult ==
    (PickedCandidate /\ Answered(TRUE) /\ Calls("exec:commit") = 1
       /\ commitResult.success) =>
          /\ Returned
          /\ result = [present |-> {"success", "message"}, success |-> TRUE,
                       message |-> candidates[choice], error |-> "",
                       cancelled |-> FALSE, suggestedMessage |-> <<>>]
          /\ commitArg = escapeQuotes(candidates[choice])

\* C2 witness: of three candidates the second one, which holds a double
\* quote, was picked and committed.
C2_Witness ==
    /\ Returned
    /\ result.success
    /\ Len(candidates) = 3
    /\ choice = 2
    /\ DQ \in Range(selected)

\* C3: when the operator picked the Cancel option, the run has returned
\* exactly {success: false, cancelled: true}, and neither confirm nor the
\* commit command was called.
C3_CancelResult ==
    PickedCancel =>
       /\ Returned
       /\ result.present = {"success", "cancelled"}
       /\ ~result.success
       /\ result.cancelled
       /\ Calls("confirm") = 0
       /\ Calls("exec:commit") = 0

\* C3 witness: the Cancel option was picked among two candidates.
C3_Witness == PickedCancel /\ Len(candidates) = 2 /\ Returned

\* C4 as stated: after a negative answer no commit is executed and the run
\* has returned a successful outcome (success is true, no error key) whose
\* suggestedMessage is the picked candidate.
C4_DeclinedIsSuccess ==
    (PickedCandidate /\ Answered(FALSE)) =>
       /\ Calls("exec:commit") = 0
       /\ Returned
       /\ result.success
       /\ "error" \notin result.present
       /\ "suggestedMessage" \in result.present
       /\ result.suggestedMessage = candidates[choice]

\* C4 amended: after a negative answer no commit is executed and the run has
\* returned {success: false, cancelled: true, suggestedMessage: <the picked
\* candidate>}, which has no error key.
C4_DeclinedResult ==
    (PickedCandidate /\ Answered(FALSE)) =>
       /\ Calls("exec:commit") = 0
       /\ Returned
       /\ result.present = {"success", "cancelled", "suggestedMessage"}
       /\ ~result.success
       /\ result.cancelled
       /\ result.suggestedMessage = candidates[choice]

\* C4 witness: a candidate was picked and the confirmation declined.
C4_Witness == PickedCandidate /\ Answered(FALSE) /\ Returned

\* a collaborator of the run failed: a git command exited non-zero, the
\* configuration accessor returned nothing or rejected, or a later step threw
CollaboratorFailed ==
    \/ Calls("exec:rev-parse") = 1 /\ ~gitCheck.success
    \/ Calls("exec:diff-stat") = 1 /\ ~stagedCheck.success
    \/ Calls("exec:diff") = 1 /\ ~diffResult.success
    \/ Calls("getConfigAsync") = 1 /\ config = NoConfig
    \/ Calls("spin.fail") > 0
    \/ Calls("exec:commit") = 1 /\ ~commitResult.success

\* C5: no failure leaves execute as an exception; once a collaborator has
\* failed, a run that ended has returned a record with success false; and no
\* collaborator is called a second time.
C5_NoFailureEscapes ==
    /\ pc # "threw"
    /\ (CollaboratorFailed /\ pc \in {"done", "threw"}) =>
          (Returned /\ "success" \in result.present /\ ~result.success)
    /\ \A name \in Range(log) \ {"spin.fail", "spin.succeed"} : Calls(name) <= 1

\* what C6 says one line contributes: a line made of one or more digits, a
\* period and at least one more character contributes what follows the
\* period, trimmed; any other line contributes nothing
ClaimedLine(line) ==
    LET d == LeadingRun(line, Digits)
    IN  IF d >= 1 /\ Len(line) >= d + 2 /\ line[d + 1] = DOT
        THEN <<Trim(Drop(line, d + 2))>>
        ELSE <<>>

\* the contributions of the lines of t, in the order of the lines
RECURSIVE ClaimedFrom(_)
ClaimedFrom(lines) ==
    IF lines = <<>> THEN <<>> ELSE ClaimedLine(Head(lines)) \o ClaimedFrom(Tail(lines))

\* C6: parseCommitCandidates(text) is the sequence of the trimmed contents of
\* the lines of the form digits, period, optional whitespace, content, in
\* the order of the lines; other lines contribute nothing, the numbers need
\* not be sequential, and the empty text yields the empty list.
C6_ParseIsNumberedLines ==
    pc = "parsed" => candidates = ClaimedFrom(Split(text, NL))

\* C7 as stated: for every message holding a double quote and a backtick, the
\* shell reads escapeQuotes(message) between double quotes as the message
\* itself: the word is not ended early and nothing is substituted.
C7_RoundTripEveryMessage ==
    (pc = "escaped" /\ {DQ, BT} \subseteq Range(selected)) =>
       ShellDoubleQuoted(commitArg) = [status |-> "ok", value |-> selected]

\* C7 amended: the same for every message holding a double quote and a
\* backtick but neither a backslash nor a dollar sign.
C7_RoundTripPlainMessage ==
    (pc = "escaped" /\ {DQ, BT} \subseteq Range(selected)
       /\ Range(selected) \cap {BS, DOLLAR} = {}) =>
          ShellDoubleQuoted(commitArg) = [status |-> "ok", value |-> selected]

\* C7 witness: the message a"` has been escaped.
C7_Witness ==
    /\ pc = "escaped"
    /\ selected = <<"a", DQ, BT>>
    /\ commitArg = <<"a", BS, DQ, BS, BT>>

\* C8: "No staged changes" is reported only when the staged-summary command
\* succeeded with output that is empty after trimming; a non-zero exit of it
\* is not reported so.
C8_NoStagedOnlyOnSuccess ==
    (Returned /\ result.error = "No staged changes") =>
       (stagedCheck.success /\ Trim(stagedCheck.output) = <<>>)

\* C9: at most one request is sent to a model provider in a run, and it goes
\* to the configured provider, which is one of openai, anthropic, google;
\* with any other configured provider the run, once past provider
\* resolution, has returned the unsupported-provider failure and no request
\* was sent.
C9_UnsupportedProviderNoRequest ==
    /\ Len(modelRequests) <= 1
    /\ Calls("generateText") = Len(modelRequests)
    /\ \A i \in DOMAIN modelRequests :
          modelRequests[i].provider = config /\ config \in SupportedProviders
    /\ (config \notin SupportedProviders \cup {NoConfig} /\ pc # "generate") =>
          /\ Returned
          /\ result = Failure("Unsupported provider: " \o config)
          /\ modelRequests = <<>>

\* C9 witness: the configured provider is azure and the run has returned.
C9_Witness == config = "azure" /\ Returned /\ Calls("createProviderFromConfig") = 1

\* the commands run through execCommand that only read the repository
ReadOnlyCommands == {"exec:rev-parse", "exec:diff-stat", "exec:diff"}

\* the collaborators that are no git command
OtherCollaborators ==
    {"getConfigAsync", "spinner", "createProviderFromConfig", "generateText",
     "spin.succeed", "spin.fail", "select", "confirm"}

\* C10: the commit command is executed at most once in a run, only after the
\* operator picked an option other than Cancel and then answered the
\* confirmation with yes; every other command the run executes only reads
\* the repository.
C10_SingleGuardedCommit ==
    /\ Calls("exec:commit") <= 1
    /\ Calls("exec:commit") = 1 =>
          /\ PickedCandidate
          /\ selected = candidates[choice]
          /\ Calls("confirm") = 1
          /\ shouldCommit
          /\ FirstCall("select") < FirstCall("confirm")
          /\ FirstCall("confirm") < FirstCall("exec:commit")
    /\ Range(log) \subseteq
          ReadOnlyCommands \cup OtherCollaborators \cup {"exec:commit"}

\* C10 witness: the commit command was executed.
C10_Witness == Calls("exec:commit") = 1 /\ Returned

\* C11: every candidate parseCommitCandidates returns is a non-empty string
\* without leading or trailing whitespace, also for a numbered line whose
\* content after the period is only whitespace.
C11_CandidatesNonEmptyTrimmed ==
    pc = "parsed" =>
       \A i \in DOMAIN candidates :
          /\ candidates[i] # <<>>
          /\ candidates[i][1] \notin WhiteSpace
          /\ candidates[i][Len(candidates[i])] \notin WhiteSpace

\* C12: picking a parsed candidate, whatever its text, leads to the
\* confirmation question and never to the Cancelled outcome: after such a
\* pick the run waits for confirm or has called it.
C12_OnlyCancelOptionCancels ==
    PickedCandidate => (pc = "confirm" \/ Calls("confirm") = 1)

TerminalStates ==
    {"NotAGitRepository", "NoStagedChanges", "ModelNotConfigured",
     "GenerationFailure", "NoCandidatesParsed", "Cancelled", "Declined",
     "Committed", "CommitFailed"}

\* the terminal state a run that returned has ended in, by the return
\* statement it took
TerminalState ==
    CASE ~Returned -> "none"
      [] ~gitCheck.success -> "NotAGitRepository"
      [] Calls("exec:diff") = 0 -> "NoStagedChanges"
      [] Calls("spinner") = 0 -> "ModelNotConfigured"
      [] Calls("exec:commit") = 1 ->
            IF commitResult.success THEN "Committed" ELSE "CommitFailed"
      [] Calls("spin.fail") > 0 -> "GenerationFailure"
      [] Calls("select") = 0 -> "NoCandidatesParsed"
      [] Calls("confirm") = 0 -> "Cancelled"
      [] OTHER -> "Declined"

\* the messages the catch block can report
CaughtMessages ==
    ThrownMessages
    \cup {createProviderFromConfig(p).message :
             p \in ConfiguredProviders \ SupportedProviders}

\* r is a record the return statement of terminal state t can return
CanReturn(t, r) ==
    CASE t = "NotAGitRepository" -> r = Failure("Not a git repository")
      [] t = "NoStagedChanges" -> r = Failure("No staged changes")
      [] t = "ModelNotConfigured" -> r = Failure("No model configured")
      [] t = "GenerationFailure" -> \E m \in CaughtMessages : r = Failure(m)
      [] t = "NoCandidatesParsed" -> r = Failure("Parse error")
      [] t = "CommitFailed" -> \E m \in CommitErrors : r = Failure(m)
      [] t = "Cancelled" -> r = CancelledResult
      [] t = "Declined" -> r = DeclinedResult(r.suggestedMessage)
      [] t = "Committed" -> r = CommittedResult(r.message)

\* C13: the result record identifies the terminal state: the record a run
\* returned is one no other terminal state can return, whatever error text
\* the failures carry.
C13_ResultIdentifiesTerminalState ==
    Returned =>
       /\ CanReturn(TerminalState, result)
       /\ \A t \in TerminalStates \ {TerminalState} : ~CanReturn(t, result)

\* str with one backslash put before every double quote and every backtick,
\* character by character
RECURSIVE InsertBackslashes(_)
InsertBackslashes(str) ==
    IF str = <<>> THEN <<>>
    ELSE (IF Head(str) \in {DQ, BT} THEN <<BS, Head(str)>> ELSE <<Head(str)>>)
         \o InsertBackslashes(Tail(str))

\* C14: the output of escapeQuotes is its input with one backslash inserted
\* before every double quote and every backtick; every other character,
\* backslash, dollar sign and newline included, stays in place unchanged.
C14_EscapesExactlyTwoCharacters ==
    pc = "escaped" =>
       /\ commitArg = InsertBackslashes(selected)
       /\ Len(commitArg) =
             Len(selected)
             + Cardinality({i \in DOMAIN selected : selected[i] \in {DQ, BT}})

\* C14 witness: a message with a backslash, a dollar sign, a newline and a
\* double quote has been escaped, and only the double quote got a backslash.
C14_Witness ==
    /\ pc = "escaped"
    /\ selected = <<BS, DOLLAR, NL, DQ>>
    /\ commitArg = <<BS, DOLLAR, NL, BS, DQ>>

\* C15: every count the pipeline runs with is an integer between 1 and 10
\* inclusive; the input schema admits no other count.
C15_CountIsIntegerInRange ==
    PipelineRuns =>
       /\ IsInteger(request.count)
       /\ Num(MinCount) <= request.count
       /\ request.count <= Num(MaxCount)

\* C16: a run that started the spinner and has returned called exactly one
\* of succeed and fail on it, once: never both and never neither, also when
\* select, confirm or the commit failed.
C16_SpinnerEndsExactlyOnce ==
    (Returned /\ Calls("spinner") = 1) =>
       Calls("spin.succeed") + Calls("spin.fail") = 1

\* C17: the diff in a prompt sent to the model is the complete output of a
\* `git diff --cached` that succeeded; after a failed one the model is not
\* called with an empty or partial diff.
C17_PromptHoldsCompleteDiff ==
    \A i \in DOMAIN modelRequests :
       /\ diffResult.success
       /\ modelRequests[i].prompt.diff = StagedDiff

====
